---- MODULE Spec2Model ----
(***************************************************************************)
(* Model of simd_example.c: add_arrays_simd (three build-selected          *)
(* branches), initialize_arrays and main.                                  *)
(*                                                                         *)
(* float values are modelled by the integers they denote; every value a    *)
(* float object holds is rounded to the 24-bit significand of the format.  *)
(* size_t values are naturals modulo size_max + 1.                         *)
(***************************************************************************)
EXTENDS Integers, Sequences, FiniteSets, TLC

\* ----------------------------------------------------------------- constants
ArraySize == 1024
PrintCount == 10
SizeofFloat == 4
MantissaBits == 24
AvxStride == 8
AvxWidth == 8
SseStrideSkipping == 4 + 1
SseStride == 4
SseWidth == 4

\* -------------------------------------------------------------------- bounds
\* Width of size_t in the run of main (the smallest width C allows).
MainIndexBits == 16
\* Width of size_t in the runs that call the functions directly.
IndexBits == 8
\* Width of size_t in the runs over every n a size_t can hold.
WideIndexBits == 7
\* Largest n of the function-level runs.
MaxN == 17
\* Floats of allocator bookkeeping in front of each buffer.
HeapGap == 2
\* Largest stride of the input patterns.
MaxStride == 1

\* ------------------------------------------------------------------- helpers
RECURSIVE Pow2(_)
Pow2(k) == IF k = 0 THEN 1 ELSE 2 * Pow2(k - 1)

Strategies == {"wide", "narrow", "scalar"}
Bufs == {"a", "b", "c"}

\* The unit in the last place of a magnitude m held in a float.
RECURSIVE UlpOf(_)
UlpOf(m) == IF m < Pow2(MantissaBits) THEN 1 ELSE 2 * UlpOf(m \div 2)

\* Round a magnitude to the nearest float, ties to even.
RoundMag(m) ==
    LET u == UlpOf(m)
        q == m \div u
        r == m % u
    IN  IF 2 * r > u \/ (2 * r = u /\ q % 2 = 1) THEN (q + 1) * u ELSE q * u

RoundFloat(x) == IF x < 0 THEN 0 - RoundMag(0 - x) ELSE RoundMag(x)

\* (float)x for a size_t x.
ToFloat(x) == RoundFloat(x)

\* a[i] + b[i] in float: the exact sum, rounded once.  A vector lane of
\* _mm256_add_ps / _mm_add_ps computes the same.
\* The content of storage the program never wrote: some value or other.  The
\* number that stands for it is not a value of the format (it needs 25
\* significant bits); a sum with such an operand is again some value or other.
Indeterminate == Pow2(MantissaBits) + 1

\* a[i] + b[i] in float: the exact sum, rounded once.  A vector lane of
\* _mm256_add_ps / _mm_add_ps computes the same.
FAddNoRound(x, y) == x + y
FAdd(x, y) ==
    IF x = Indeterminate \/ y = Indeterminate THEN Indeterminate ELSE RoundFloat(x + y)

Fresh(len) == [k \in 0 .. (len - 1) |-> Indeterminate]

NoLog == [k \in {} |-> 0]

\* printf's %zu and %f of a float holding an integer value.
FormatZu(x) == ToString(x)
FormatF(x) == ToString(x) \o ".000000"
PrintLineNoIndex(k, v) == "c[] = " \o FormatF(v)
PrintLine(k, v) == "c[" \o FormatZu(k) \o "] = " \o FormatF(v)

\* The #if / #elif / #else chain of add_arrays_simd: the first branch whose
\* condition holds is the one compiled.
IfChain(av, ss) ==
    << [cond |-> av, branch |-> "wide"],
       [cond |-> ss, branch |-> "narrow"],
       [cond |-> TRUE, branch |-> "scalar"] >>

SelectedNarrowFirst(av, ss) == IF ss THEN "narrow" ELSE IF av THEN "wide" ELSE "scalar"
Selected(av, ss) ==
    LET ch == IfChain(av, ss)
        first == CHOOSE k \in 1 .. Len(ch) :
                    ch[k].cond /\ \A j \in 1 .. (k - 1) : ~ch[j].cond
    IN  ch[first].branch

VARIABLES
    avx, sse2,      \* the build's __AVX__ and __SSE2__ markers
    macro,          \* the build's definition of the identifier SSE2, if any
    base,           \* per buffer: the address the allocator gives it, in floats
    size_max,       \* SIZE_MAX of the build
    strategy,       \* the branch of add_arrays_simd compiled in, "none" before the build
    pc,             \* the statement about to execute
    ret,            \* where the running function returns to
    n,              \* the length
    a, b, c,        \* the buffers' contents: functions on 0 .. len-1
    i,              \* the index of the running loop
    stdout, stderr, \* the lines written
    status,         \* the exit status, -1 while running
    heap,           \* per buffer: "unset", "null", "live" or "freed"
    frees,          \* per buffer: the number of free calls
    calls,          \* the calls main made, in order
    vecw,           \* index -> number of vector load/store that touched it (2 = more)
    scalw,          \* index -> number of scalar c[i] = a[i] + b[i] at it (2 = more)
    results         \* strategy -> the c it produced, in the comparison runs

vars == << avx, sse2, macro, base, size_max, strategy, pc, ret, n, a, b, c, i, stdout, stderr,
           status, heap, frees, calls, vecw, scalw, results >>

build == << avx, sse2, macro, base, size_max, strategy >>
mem == << a, b, c >>
io == << stdout, stderr, status >>
alloc == << heap, frees >>
logs == << vecw, scalw >>

\* size_t arithmetic
SizeAdd(x, y) == (x + y) % (size_max + 1)
SizeSub(x, y) == (x - y + size_max + 1) % (size_max + 1)
SizeMul(x, y) == (x * y) % (size_max + 1)

\* Line 48 reads  puts(SSE2 "is detected.");  SSE2 is no identifier of the
\* program, so the statement is well formed only in a build that defines SSE2
\* as a macro expanding to a string literal or to nothing (-DSSE2=...), and
\* the string put is then that literal followed by "is detected.".
NoMacro == [defined |-> FALSE, text |-> ""]
MacroChoices ==
    { NoMacro, [defined |-> TRUE, text |-> ""], [defined |-> TRUE, text |-> "SSE2 "] }

\* SSE2 is looked at only in a build of the narrow branch; the other builds
\* are taken without it.
MacrosFor(s) == IF s = "narrow" THEN MacroChoices ELSE {NoMacro}

Compiles(s) == s # "narrow" \/ macro.defined

\* The line each branch puts.
DiagLine(s) ==
    CASE s = "wide" -> "AVX is detected."
      [] s = "narrow" -> macro.text \o "is detected."
      [] s = "scalar" -> "no SIMD extension is detected."

\* One more access at each index of S, saturating at 2.
Bump(log, S) ==
    [k \in (DOMAIN log) \cup S |->
        IF k \in S
        THEN (IF k \in DOMAIN log THEN (IF log[k] >= 1 THEN 2 ELSE 1) ELSE 1)
        ELSE log[k]]

\* ------------------------------------------------------------------ the build
\* Preprocessing selects the branch; when it is the narrow one and SSE2 is not
\* defined, line 48 does not compile and the build yields no program.
Build ==
    /\ pc = "build"
    /\ strategy' = Selected(avx, sse2)
    /\ pc' = IF Compiles(strategy') THEN "malloc_a" ELSE "compile_error"
    /\ UNCHANGED << avx, sse2, macro, base, size_max, ret, n, mem, i, io, alloc, calls, logs, results >>

\* ------------------------------------------------------------------- main
\* malloc(n * sizeof(float)): NULL, or storage of that many bytes.
MallocLen == SizeMul(n, SizeofFloat) \div SizeofFloat

MallocA ==
    /\ pc = "malloc_a"
    /\ \E ok \in BOOLEAN :
        /\ heap' = [heap EXCEPT !["a"] = IF ok THEN "live" ELSE "null"]
        /\ a' = IF ok THEN Fresh(MallocLen) ELSE Fresh(0)
    /\ pc' = "malloc_b"
    /\ UNCHANGED << build, ret, n, b, c, i, io, frees, calls, logs, results >>

MallocB ==
    /\ pc = "malloc_b"
    /\ \E ok \in BOOLEAN :
        /\ heap' = [heap EXCEPT !["b"] = IF ok THEN "live" ELSE "null"]
        /\ b' = IF ok THEN Fresh(MallocLen) ELSE Fresh(0)
    /\ pc' = "malloc_c"
    /\ UNCHANGED << build, ret, n, a, c, i, io, frees, calls, logs, results >>

MallocC ==
    /\ pc = "malloc_c"
    /\ \E ok \in BOOLEAN :
        /\ heap' = [heap EXCEPT !["c"] = IF ok THEN "live" ELSE "null"]
        /\ c' = IF ok THEN Fresh(MallocLen) ELSE Fresh(0)
    /\ pc' = "check_alloc"
    /\ UNCHANGED << build, ret, n, a, b, i, io, frees, calls, logs, results >>

\* if (!a || !b || !c) { fprintf(stderr, ...); return 1; }
AnyNullOnlyA == heap["a"] = "null"
AnyNull == heap["a"] = "null" \/ heap["b"] = "null" \/ heap["c"] = "null"

CheckAlloc ==
    /\ pc = "check_alloc"
    /\ IF AnyNull
       THEN /\ stderr' = Append(stderr, "Memory allocation failed")
            /\ status' = 1
            /\ pc' = "exit"
       ELSE /\ pc' = "call_init"
            /\ UNCHANGED << stderr, status >>
    /\ UNCHANGED << build, ret, n, mem, i, stdout, alloc, calls, logs, results >>

\* initialize_arrays(a, b, n);
CallInit ==
    /\ pc = "call_init"
    /\ calls' = Append(calls, "initialize_arrays")
    /\ i' = 0
    /\ ret' = "call_add"
    /\ pc' = "init_loop"
    /\ UNCHANGED << build, n, mem, io, alloc, logs, results >>

\* add_arrays_simd(a, b, c, n);
CallAdd ==
    /\ pc = "call_add"
    /\ calls' = Append(calls, "add_arrays_simd")
    /\ ret' = "print_init"
    /\ pc' = "add_entry"
    /\ UNCHANGED << build, n, mem, i, io, alloc, logs, results >>

\* for (size_t i = 0; ...
PrintInit ==
    /\ pc = "print_init"
    /\ i' = 0
    /\ pc' = "print_loop"
    /\ UNCHANGED << build, ret, n, mem, io, alloc, calls, logs, results >>

\* ... i < 10; ++i) printf("c[%zu] = %f\n", i, c[i]);
PrintStep ==
    /\ pc = "print_loop"
    /\ i < PrintCount
    /\ stdout' = Append(stdout, PrintLine(i, c[i]))
    /\ i' = SizeAdd(i, 1)
    /\ UNCHANGED << build, pc, ret, n, mem, stderr, status, alloc, calls, logs, results >>

PrintExit ==
    /\ pc = "print_loop"
    /\ ~(i < PrintCount)
    /\ pc' = "free_a"
    /\ UNCHANGED << build, ret, n, mem, i, io, alloc, calls, logs, results >>

Free(x) ==
    /\ heap' = [heap EXCEPT ![x] = "freed"]
    /\ frees' = [frees EXCEPT ![x] = @ + 1]

FreeA ==
    /\ pc = "free_a"
    /\ Free("a")
    /\ pc' = "free_b"
    /\ UNCHANGED << build, ret, n, mem, i, io, calls, logs, results >>

FreeB ==
    /\ pc = "free_b"
    /\ Free("b")
    /\ pc' = "free_c"
    /\ UNCHANGED << build, ret, n, mem, i, io, calls, logs, results >>

\* free(c); return 0;
FreeC ==
    /\ pc = "free_c"
    /\ Free("c")
    /\ status' = 0
    /\ pc' = "exit"
    /\ UNCHANGED << build, ret, n, mem, i, stdout, stderr, calls, logs, results >>

\* The three buffers lie in one address space of FloatSlots floats; x[k] is
\* the float at address base[x] + k, whatever k is, and that address may lie
\* in x, in another of the buffers, or in none (the access is undefined
\* behaviour as soon as it is not in x).
FloatSlots == (size_max + 1) \div SizeofFloat
Buf(x) == IF x = "a" THEN a ELSE IF x = "b" THEN b ELSE c
Addr(x, k) == (base[x] + k) % FloatSlots
Holders(ad) == { y \in Bufs : (ad - base[y]) \in DOMAIN Buf(y) }
Mapped(x, k) == Holders(Addr(x, k)) # {}

\* The value read at x[k]: some value or other outside the buffers.
Load(x, k) ==
    LET ad == Addr(x, k)
    IN  IF Holders(ad) = {} THEN Indeterminate
        ELSE LET y == CHOOSE y \in Holders(ad) : TRUE IN Buf(y)[ad - base[y]]

\* Buffer y, holding cur, after the store  x[k] = v.
StoreAt(y, cur, x, k, v) ==
    LET j == Addr(x, k) - base[y]
    IN  IF j \in DOMAIN cur THEN [cur EXCEPT ![j] = v] ELSE cur

\* The indices a loop  for (; i < n; ++i)  standing at from has yet to reach.
Rest(from) == from .. (n - 1)

\* What a step that accesses x[k], x in X and k in S, can do when the loop
\* it belongs to goes on to the indices of R.  An access that lies in none
\* of the buffers may fault or go through; one that lies in a buffer goes to
\* the address it names.  A loop that is going to reach an access outside
\* every buffer is undefined from the start, and the build may take that
\* access early (an optimising build takes the element loops several
\* elements at a time): it may fault at any step before.
Outcomes(X, S, R) ==
    (IF \A k \in S : \A x \in X : Mapped(x, k) THEN {"ok"} ELSE {"carry_on"})
    \cup
    (IF \E k \in S \cup R : \E x \in X : ~Mapped(x, k) THEN {"fault"} ELSE {})

\* ------------------------------------------------------- initialize_arrays
InitValueBOffByOne(len, k) == ToFloat(SizeSub(SizeSub(len, k), 1))
InitValueB(len, k) == ToFloat(SizeSub(len, k))

\* Buffer y after  a[i] = (float)i;  and after  b[i] = (float)(n - i);  too.
AfterStoreA(y) == StoreAt(y, Buf(y), "a", i, ToFloat(i))
AfterStoreB(y) == StoreAt(y, AfterStoreA(y), "b", i, InitValueB(n, i))

\* One iteration: the store to a[i], then the store to b[i], neither
\* checked against the buffers; a fault comes before the first store or
\* between the two.
InitStep ==
    /\ pc = "init_loop"
    /\ i < n
    /\ \E o \in Outcomes({"a", "b"}, {i}, Rest(i)) :
         IF o = "fault"
         THEN /\ pc' = "crashed"
              /\ i' = i
              /\ \E stored \in BOOLEAN :
                    /\ a' = (IF stored THEN AfterStoreA("a") ELSE a)
                    /\ b' = (IF stored THEN AfterStoreA("b") ELSE b)
                    /\ c' = (IF stored THEN AfterStoreA("c") ELSE c)
         ELSE /\ a' = AfterStoreB("a")
              /\ b' = AfterStoreB("b")
              /\ c' = AfterStoreB("c")
              /\ i' = SizeAdd(i, 1)
              /\ pc' = pc
    /\ UNCHANGED << build, ret, n, io, alloc, calls, logs, results >>

InitReturn ==
    /\ pc = "init_loop"
    /\ ~(i < n)
    /\ pc' = ret
    /\ UNCHANGED << build, ret, n, mem, i, io, alloc, calls, logs, results >>

\* --------------------------------------------------------- add_arrays_simd
\* The indices a vector load / store at &x[at] touches.
VecLanesLong(at, width) == at .. (at + width)
VecLanes(at, width) == at .. (at + width - 1)

\* Buffer y, holding cur, after the stores of c[k] = a[k] + b[k] for the
\* indices k of S: a store changes y where &c[k] lies in y.  The operands are
\* loaded from the buffers as they are before the step.
RECURSIVE StoreLanes(_, _, _)
StoreLanes(y, cur, S) ==
    IF S = {} THEN cur
    ELSE LET k == CHOOSE k \in S : TRUE
             j == Addr("c", k) - base[y]
         IN  StoreLanes(y,
                        IF j \in DOMAIN cur
                        THEN [cur EXCEPT ![j] = FAdd(Load("a", k), Load("b", k))]
                        ELSE cur,
                        S \ {k})

Sums(y, S) == StoreLanes(y, Buf(y), S)

\* puts(...) of the branch s, and the loop's i = 0.
Puts(s, loop) ==
    /\ pc = "add_entry"
    /\ strategy = s
    /\ stdout' = Append(stdout, DiagLine(s))
    /\ i' = 0
    /\ pc' = loop
    /\ UNCHANGED << build, ret, n, mem, stderr, status, alloc, calls, logs, results >>

\* The guard of  for (i = 0; i + stride <= n; i += stride).
ChunkGuardStrict(stride) == SizeAdd(i, stride) < n
ChunkGuard(stride) == SizeAdd(i, stride) <= n

\* One iteration of the chunk loop: load width lanes of a and b at i, add,
\* store width lanes of c at i; i += stride.
ChunkIter(loop, stride, width) ==
    /\ pc = loop
    /\ ChunkGuard(stride)
    /\ vecw' = Bump(vecw, VecLanes(i, width))
    /\ \E o \in Outcomes(Bufs, VecLanes(i, width), {}) :
         IF o = "fault"
         THEN /\ pc' = "crashed"
              /\ UNCHANGED << a, b, c, i >>
         ELSE /\ a' = Sums("a", VecLanes(i, width))
              /\ b' = Sums("b", VecLanes(i, width))
              /\ c' = Sums("c", VecLanes(i, width))
              /\ i' = SizeAdd(i, stride)
              /\ pc' = pc
    /\ UNCHANGED << build, ret, n, io, alloc, calls, scalw, results >>

\* The chunk loop's guard fails: on to the remainder loop, i kept.
ChunkExit(loop, rem, stride) ==
    /\ pc = loop
    /\ ~ChunkGuard(stride)
    /\ pc' = rem
    /\ UNCHANGED << build, ret, n, mem, i, io, alloc, calls, logs, results >>

\* The index after ++i.
NextIndexStuck(x) == x
NextIndex(x) == SizeAdd(x, 1)

\* One iteration of  for (; i < n; ++i) c[i] = a[i] + b[i];
ScalarIter(loop) ==
    /\ pc = loop
    /\ i < n
    /\ scalw' = Bump(scalw, {i})
    /\ \E o \in Outcomes(Bufs, {i}, Rest(i)) :
         IF o = "fault"
         THEN /\ pc' = "crashed"
              /\ UNCHANGED << a, b, c, i >>
         ELSE /\ a' = Sums("a", {i})
              /\ b' = Sums("b", {i})
              /\ c' = Sums("c", {i})
              /\ i' = NextIndex(i)
              /\ pc' = pc
    /\ UNCHANGED << build, ret, n, io, alloc, calls, vecw, results >>

\* The scalar loop's guard fails: the function returns.
Return(loop) ==
    /\ pc = loop
    /\ ~(i < n)
    /\ pc' = ret
    /\ UNCHANGED << build, ret, n, mem, i, io, alloc, calls, logs, results >>

\* #if defined(__AVX__)
AvxPuts == Puts("wide", "avx_loop")
AvxChunk == ChunkIter("avx_loop", AvxStride, AvxWidth)
AvxChunkExit == ChunkExit("avx_loop", "avx_rem", AvxStride)
AvxRem == ScalarIter("avx_rem")
AvxReturn == Return("avx_rem")

\* #elif defined(__SSE2__)
SsePuts == Puts("narrow", "sse_loop")
SseChunk == ChunkIter("sse_loop", SseStride, SseWidth)
SseChunkExit == ChunkExit("sse_loop", "sse_rem", SseStride)
SseRem == ScalarIter("sse_rem")
SseReturn == Return("sse_rem")

\* #else
ScalarPuts == Puts("scalar", "scalar_loop")
ScalarStep == ScalarIter("scalar_loop")
ScalarReturn == Return("scalar_loop")

AvxBranch == AvxPuts \/ AvxChunk \/ AvxChunkExit \/ AvxRem \/ AvxReturn
SseBranch == SsePuts \/ SseChunk \/ SseChunkExit \/ SseRem \/ SseReturn
ScalarBranch == ScalarPuts \/ ScalarStep \/ ScalarReturn

ChunkPcs == {"avx_loop", "sse_loop"}
RemPcs == {"avx_rem", "sse_rem"}
AddPcs == {"add_entry", "avx_loop", "avx_rem", "sse_loop", "sse_rem", "scalar_loop"}
StrideOf(s) == IF s = "wide" THEN AvxStride ELSE IF s = "narrow" THEN SseStride ELSE 1

\* ------------------------------------------------------- the run of main
\* Where the allocator places three buffers of len floats: one after the
\* other in the order given, each behind HeapGap floats of bookkeeping.
CallOrder == << "a", "b", "c" >>
Orders == { CallOrder, << "c", "a", "b" >> }
Place(order, len) ==
    [x \in Bufs |->
        LET at == CHOOSE k \in 1 .. 3 : order[k] = x
        IN  at * HeapGap + (at - 1) * len]

\* Three buffers of len floats fit into the address space.
Allocatable(len) == 3 * (HeapGap + len) <= FloatSlots

Init ==
    /\ avx \in BOOLEAN
    /\ sse2 \in BOOLEAN
    /\ macro \in MacrosFor(Selected(avx, sse2))
    /\ base = Place(CallOrder, ArraySize)
    /\ size_max = Pow2(MainIndexBits) - 1
    /\ strategy = "none"
    /\ pc = "build"
    /\ ret = "none"
    /\ n = ArraySize
    /\ a = Fresh(0)
    /\ b = Fresh(0)
    /\ c = Fresh(0)
    /\ i = 0
    /\ stdout = << >>
    /\ stderr = << >>
    /\ status = -1
    /\ heap = [x \in Bufs |-> "unset"]
    /\ frees = [x \in Bufs |-> 0]
    /\ calls = << >>
    /\ vecw = NoLog
    /\ scalw = NoLog
    /\ results = [s \in {} |-> Fresh(0)]

\* The steps a run of main takes.  With n = 1024 the remainder loops of the
\* wide and the narrow branch never iterate.
Next ==
    \/ Build
    \/ MallocA \/ MallocB \/ MallocC \/ CheckAlloc
    \/ CallInit \/ InitStep \/ InitReturn
    \/ CallAdd
    \/ AvxPuts \/ AvxChunk \/ AvxChunkExit \/ AvxReturn
    \/ SsePuts \/ SseChunk \/ SseChunkExit \/ SseReturn
    \/ ScalarPuts \/ ScalarStep \/ ScalarReturn
    \/ PrintInit \/ PrintStep \/ PrintExit
    \/ FreeA \/ FreeB \/ FreeC

Spec == Init /\ [][Next]_vars

\* ------------------------------------------- the functions, called directly
\* Input values: zero, one, and the first float whose successor integer is
\* not a float.
Vals == << 0, 1, Pow2(MantissaBits) >>

Pattern(len, off, st) ==
    [k \in 0 .. (len - 1) |-> Vals[((off + k * st) % Len(Vals)) + 1]]

Inputs(len) ==
    { Pattern(len, off, st) : off \in 0 .. (Len(Vals) - 1), st \in 0 .. MaxStride }

\* The largest len for which three buffers fit.
MaxLen == (FloatSlots \div 3) - HeapGap

\* The buffers are as long as n says when such buffers can exist, and the
\* longest that can exist otherwise.
LenFor(len) == IF Allocatable(len) THEN len ELSE MaxLen

\* A build, and a call of entry in it when the build yields a program.
InitCall(bits, entry) ==
    /\ avx \in BOOLEAN
    /\ sse2 \in BOOLEAN
    /\ macro \in MacrosFor(Selected(avx, sse2))
    /\ size_max = Pow2(bits) - 1
    /\ strategy = Selected(avx, sse2)
    /\ pc = IF Compiles(strategy) THEN entry ELSE "compile_error"
    /\ i = 0
    /\ stdout = << >>
    /\ stderr = << >>
    /\ status = -1
    /\ heap = [x \in Bufs |-> "live"]
    /\ frees = [x \in Bufs |-> 0]
    /\ calls = << >>
    /\ vecw = NoLog
    /\ scalw = NoLog
    /\ results = [s \in {} |-> Fresh(0)]

\* Either add_arrays_simd is called on given inputs, or initialize_arrays is
\* called first and add_arrays_simd on what it left.
InitFn ==
    /\ n \in 0 .. MaxN
    /\ base = Place(CallOrder, n)
    /\ c = Fresh(n)
    /\ \/ /\ InitCall(IndexBits, "add_entry")
          /\ a \in Inputs(n)
          /\ b \in Inputs(n)
          /\ ret = "returned"
       \/ /\ InitCall(IndexBits, "init_loop")
          /\ a = Fresh(n)
          /\ b = Fresh(n)
          /\ ret = "then_add"
    /\ Allocatable(n)

ThenAdd ==
    /\ pc = "then_add"
    /\ pc' = "add_entry"
    /\ ret' = "returned"
    /\ UNCHANGED << build, n, mem, i, io, alloc, calls, logs, results >>

\* add_arrays_simd has returned: keep its c, and run the build of a strategy
\* not yet run on the same a, b, n and a fresh c.
Rerun ==
    /\ pc = "returned"
    /\ results' = (strategy :> c) @@ results
    /\ IF DOMAIN results' = Strategies
       THEN /\ pc' = "compared"
            /\ UNCHANGED << avx, sse2, macro, strategy, c, i, stdout, vecw, scalw >>
       ELSE /\ \E av \in BOOLEAN, ss \in BOOLEAN :
                 /\ Selected(av, ss) \notin DOMAIN results'
                 /\ avx' = av
                 /\ sse2' = ss
                 /\ strategy' = Selected(av, ss)
                 /\ macro' \in MacrosFor(Selected(av, ss))
            /\ c' = Fresh(n)
            /\ i' = 0
            /\ stdout' = << >>
            /\ vecw' = NoLog
            /\ scalw' = NoLog
            /\ pc' = IF Compiles(strategy') THEN "add_entry" ELSE "compile_error"
    /\ UNCHANGED << base, size_max, ret, n, a, b, stderr, status, alloc, calls >>

NextFn ==
    \/ InitStep \/ InitReturn \/ ThenAdd
    \/ AvxBranch \/ SseBranch \/ ScalarBranch
    \/ Rerun

SpecFn == InitFn /\ [][NextFn]_vars

\* ------------------------------ add_arrays_simd on every representable n
InitIdx ==
    /\ InitCall(WideIndexBits, "add_entry")
    /\ n \in 0 .. size_max
    /\ \E o \in Orders : base = Place(o, LenFor(n))
    /\ a = [k \in 0 .. (LenFor(n) - 1) |-> 0]
    /\ b = [k \in 0 .. (LenFor(n) - 1) |-> IF k = 0 THEN 1 ELSE 0]
    /\ c = Fresh(LenFor(n))
    /\ ret = "returned"

NextIdx == AvxBranch \/ SseBranch \/ ScalarBranch

\* The function runs on one thread that is never suspended for good.
SpecIdx == InitIdx /\ [][NextIdx]_vars /\ WF_vars(NextIdx)

\* ================================================================== claims

\* The float sum of two floats, written out for the statements below.
FloatSum(x, y) ==
    LET m == IF x + y < 0 THEN 0 - (x + y) ELSE x + y
        u == UlpOf(m)
        q == m \div u
        r == m % u
        rm == IF 2 * r > u \/ (2 * r = u /\ q % 2 = 1) THEN (q + 1) * u ELSE q * u
    IN  IF x + y < 0 THEN 0 - rm ELSE rm

\* C1: when add_arrays_simd returns, under whichever of the three branches
\* was built, c has n elements and c[k] is the float sum a[k] + b[k] for
\* every k in [0, n).
AddCorrect ==
    pc = "returned" =>
        /\ DOMAIN c = 0 .. (n - 1)
        /\ \A k \in 0 .. (n - 1) : c[k] = FloatSum(a[k], b[k])

\* A narrow-branch call on 9 elements has returned, one sum of which was
\* rounded.
AddCorrectWitness ==
    /\ pc = "returned"
    /\ strategy = "narrow"
    /\ n = 9
    /\ \E k \in 0 .. (n - 1) : c[k] # a[k] + b[k]

\* C2: run on the same a, b and n, the wide, the narrow and the scalar
\* branch leave the same array c.
StrategiesAgree ==
    pc = "compared" =>
        /\ results["wide"] = results["narrow"]
        /\ results["narrow"] = results["scalar"]

\* The three branches have run on 13 elements that are not all alike.
StrategiesAgreeWitness ==
    /\ pc = "compared"
    /\ n = 13
    /\ a[0] # a[1]
    /\ DOMAIN results = Strategies

\* C3: in the branches with chunk k = 8 or 4, the chunk loop stores the
\* floor(n / k) chunks that make up [0, n - n mod k), once each, and leaves i
\* at n - n mod k; the remainder loop then computes the n mod k indices of
\* [n - n mod k, n), once each, and each gets the float sum a[i] + b[i].
RemainderSplit ==
    LET k == IF strategy = "wide" THEN 8 ELSE 4
        full == n - (n % k)
    IN  /\ (pc \in RemPcs /\ scalw = NoLog) =>
              /\ i = full
              /\ Cardinality(DOMAIN vecw) = k * (n \div k)
        /\ (pc \in RemPcs \/ (pc = "returned" /\ strategy \in {"wide", "narrow"})) =>
              /\ DOMAIN vecw = 0 .. (full - 1)
              /\ \A x \in DOMAIN vecw : vecw[x] = 1
        /\ (pc = "returned" /\ strategy \in {"wide", "narrow"}) =>
              /\ DOMAIN scalw = full .. (n - 1)
              /\ \A x \in DOMAIN scalw : scalw[x] = 1 /\ c[x] = FloatSum(a[x], b[x])

\* The wide branch has returned from 9 elements: one chunk, one trailing
\* element.
RemainderSplitWitness ==
    /\ pc = "returned"
    /\ strategy = "wide"
    /\ n = 9
    /\ DOMAIN vecw = 0 .. 7
    /\ DOMAIN scalw = {8}

\* C4: in a run of main whose three allocations succeed, once
\* add_arrays_simd has returned every c[k], k in [0, 1024), is 1024; what is
\* on standard output is at every moment the beginning of: the line of the
\* branch built, then "c[k] = 1024.000000" for k = 0 .. 9; and the process
\* exits with status 0 exactly when all eleven lines are written.
ExpectedOutput ==
    << (IF avx THEN "AVX is detected."
        ELSE IF sse2 THEN macro.text \o "is detected."
        ELSE "no SIMD extension is detected.") >>
    \o [k \in 1 .. 10 |-> "c[" \o ToString(k - 1) \o "] = 1024.000000"]

MainOutput ==
    /\ Len(stdout) <= Len(ExpectedOutput)
    /\ \A k \in 1 .. Len(stdout) : stdout[k] = ExpectedOutput[k]
    /\ (pc \in {"print_init", "print_loop", "free_a", "free_b", "free_c"} \/ status = 0) =>
          /\ DOMAIN c = 0 .. 1023
          /\ \A k \in 0 .. 1023 : c[k] = 1024
    /\ status = 0 => (pc = "exit" /\ stdout = ExpectedOutput /\ stderr = << >>)
    /\ (pc = "exit" /\ ~(\E x \in Bufs : heap[x] = "null")) => status = 0

\* main has exited with status 0 after its eleven lines.
MainOutputWitness ==
    /\ pc = "exit"
    /\ status = 0
    /\ Len(stdout) = 11
    /\ stdout[11] = "c[9] = 1024.000000"

\* C5: once an allocation of main has failed, no function is called and
\* nothing is written to standard output; the one line "Memory allocation
\* failed" is written to standard error, and only after the three
\* allocation attempts; and the run ends by exiting with status 1.
AllocFailure ==
    /\ stderr # << >> =>
          /\ stderr = << "Memory allocation failed" >>
          /\ \A x \in Bufs : heap[x] # "unset"
          /\ \E x \in Bufs : heap[x] = "null"
    /\ (\E x \in Bufs : heap[x] = "null") =>
          /\ calls = << >>
          /\ stdout = << >>
          /\ pc \in {"malloc_b", "malloc_c", "check_alloc", "exit"}
          /\ status = (IF pc = "exit" THEN 1 ELSE -1)
          /\ pc = "exit" => stderr = << "Memory allocation failed" >>

\* a was allocated, b was not, and main has exited.
AllocFailureWitness ==
    /\ pc = "exit"
    /\ heap["a"] = "live"
    /\ heap["b"] = "null"
    /\ status = 1

\* C6: when main exits, every buffer it allocated has been freed, once.
ReleasedOnEveryExit ==
    pc = "exit" =>
        \A x \in Bufs : heap[x] \in {"live", "freed"} => (heap[x] = "freed" /\ frees[x] = 1)

\* C7: the branch built is the wide one whenever __AVX__ is defined, the
\* narrow one when __AVX__ is not and __SSE2__ is, the scalar one when
\* neither is; the loops that run are those of that branch, and the markers
\* and the branch stay what they were at the build.
PriorityChain ==
    /\ pc # "build" =>
          /\ strategy \in Strategies
          /\ (strategy = "wide") = avx
          /\ (strategy = "narrow") = (~avx /\ sse2)
          /\ (strategy = "scalar") = (~avx /\ ~sse2)
    /\ pc \in {"avx_loop", "avx_rem"} => avx
    /\ pc \in {"sse_loop", "sse_rem"} => (~avx /\ sse2)
    /\ pc = "scalar_loop" => (~avx /\ ~sse2)

\* Both markers are defined and the wide loop is running.
PriorityChainWitness ==
    /\ avx
    /\ sse2
    /\ pc = "avx_loop"
    /\ i > 0

\* C8: when initialize_arrays(a, b, n) returns, a[k] is the float k and
\* b[k] the float n - k for every k in [0, n): a and b are a function of n.
InitCorrect ==
    pc = "then_add" =>
        /\ a = [k \in 0 .. (n - 1) |-> FloatSum(k, 0)]
        /\ b = [k \in 0 .. (n - 1) |-> FloatSum(n - k, 0)]

\* initialize_arrays has returned from 9 elements.
InitCorrectWitness ==
    /\ pc = "then_add"
    /\ n = 9
    /\ a[8] = 8
    /\ b[8] = 1

\* C9: called with buffers of n elements, add_arrays_simd touches no index
\* outside [0, n) and no index twice; a chunk is loaded and stored at i only
\* when i + chunk <= n; when it returns every index of [0, n) has been
\* written once; it never faults; and it leaves a and b as they were.
AccessInBounds ==
    /\ (DOMAIN vecw) \cup (DOMAIN scalw) \subseteq 0 .. (n - 1)
    /\ (DOMAIN vecw) \cap (DOMAIN scalw) = {}
    /\ \A x \in DOMAIN vecw : vecw[x] = 1
    /\ \A x \in DOMAIN scalw : scalw[x] = 1
    /\ (pc = "avx_loop" /\ i + 8 > n) => ~ENABLED AvxChunk
    /\ (pc = "sse_loop" /\ i + 4 > n) => ~ENABLED SseChunk
    /\ pc = "returned" => (DOMAIN vecw) \cup (DOMAIN scalw) = 0 .. (n - 1)
    /\ pc # "crashed"

InputsKept == (pc \in AddPcs) => (a' = a /\ b' = b)

BoundsRespected ==
    /\ []AccessInBounds
    /\ [][InputsKept]_vars

\* The narrow branch has returned from 17 elements: four chunks and one
\* trailing element.
BoundsRespectedWitness ==
    /\ pc = "returned"
    /\ strategy = "narrow"
    /\ n = 17
    /\ DOMAIN vecw = 0 .. 15
    /\ DOMAIN scalw = {16}

\* C10, as claimed: for every n a size_t can hold, the chunk loop's guard is
\* never evaluated with i + chunk wrapped around, every iteration increases
\* i, which stays within n (so the loops end), and the function returns with
\* i = n.
LoopPcs == ChunkPcs \cup RemPcs \cup {"scalar_loop"}
GuardDoesNotWrap == pc \in ChunkPcs => i + StrideOf(strategy) <= size_max
IndexWithinN == pc \in LoopPcs => i <= n
ReturnsAtN == pc = "returned" => i = n
IterationIncreases == (pc \in LoopPcs /\ pc' = pc) => i' > i

TerminatesForEveryN ==
    /\ [](GuardDoesNotWrap /\ IndexWithinN /\ ReturnsAtN)
    /\ [][IterationIncreases]_vars

\* C10, amended: the same, for every n such that the three buffers of n
\* floats can exist; and in every build that yields a program the function
\* then keeps taking steps until it has returned.
KeepsGoing == Compiles(strategy) => (pc = "returned" \/ ENABLED NextIdx)

TerminatesWhenAllocatable ==
    /\ [](Allocatable(n) => (GuardDoesNotWrap /\ IndexWithinN /\ ReturnsAtN /\ KeepsGoing))
    /\ [][Allocatable(n) => IterationIncreases]_vars

\* The narrow branch has returned from buffers that exist, after chunks and
\* trailing elements.
TerminatesWitness ==
    /\ pc = "returned"
    /\ strategy = "narrow"
    /\ Allocatable(n)
    /\ i = n
    /\ vecw # NoLog
    /\ scalw # NoLog

====
